---------------------------- MODULE Spec2Model ----------------------------
(***************************************************************************)
(* Model of the btc-wallet SPV node core:                                  *)
(*   - src/src/messages/headers.rs       BlockHeader / Headers wire codec  *)
(*   - src/src/threads/peer_stream_loop.rs  per-peer reader thread         *)
(*   - src/src/wallet.rs                 wallet file records               *)
(*   - src/src/gui/balance.rs            balance view of the GUI           *)
(*                                                                         *)
(* The specifications of the module:                                       *)
(*   Spec        the peer stream loop reading frames from one peer         *)
(*   SpecCodec   Headers::parse followed by Headers::serialize on payloads *)
(*   SpecHeader  BlockHeader::parse(buf, false), then serialize            *)
(*   SpecPoW     BlockHeader::validate on hashes and bits values           *)
(*   SpecWallet  Wallet::serialize and Wallet::parse_wallets               *)
(*   SpecGui     GUIBalance::handle_events, statement by statement         *)
(***************************************************************************)
EXTENDS Integers, Sequences, FiniteSets, TLC

(***************************************************************************)
(* Program constants                                                       *)
(***************************************************************************)
\* peer_stream_loop.rs:69  a full page of headers
FullPage == 2000
\* headers.rs:38  length of a serialized block header
HeaderSize == 80
\* headers.rs:146  a header followed by its transaction-count byte
RecordSize == 81
\* message.rs (24-byte frame header)
FrameHeaderSize == 24
\* size of a double-SHA-256 digest, headers.rs:67
HashSize == 32
\* wallet.rs:21  the greatest length a u8 prefix holds
U8Max == 255

(***************************************************************************)
(* Bounds of the model                                                     *)
(***************************************************************************)
\* number of frames the peer sends to one loop
MaxMsgs == 2
\* number of 81-byte records in a payload given to Headers::parse
MaxRecords == 2
\* number of wallets in a wallet file
MaxWallets == 2

Last(s) == s[Len(s)]

(***************************************************************************)
(* Results, as Rust's Result<T, CustomError> plus a panic outcome          *)
(***************************************************************************)
Ok(v) == [tag |-> "Ok", val |-> v]
Err(e) == [tag |-> "Err", err |-> e]
Panic == [tag |-> "Panic"]
IsOk(r) == r.tag = "Ok"

(***************************************************************************)
(* Integer encodings.  A fixed-width integer is held as its sequence of    *)
(* 16-bit limbs, least significant first (u16: 1 limb, u32: 2, u64: 4), so *)
(* that every 32- and 64-bit value is representable; the top limb of an    *)
(* i32 is signed (two's complement).                                       *)
(***************************************************************************)
Limb == 65536

\* the limbs of a non-negative literal below 2^31
U32(n) == <<n % Limb, n \div Limb>>

\* u32::to_le_bytes / u64::to_le_bytes
to_le_bytes(x) ==
    [i \in 1..(2 * Len(x)) |->
        IF i % 2 = 1 THEN x[(i + 1) \div 2] % 256 ELSE x[i \div 2] \div 256]

\* u32::to_be_bytes
to_be_bytes(x) ==
    LET le == to_le_bytes(x) IN [i \in 1..Len(le) |-> le[Len(le) + 1 - i]]

\* little-endian decoding of 2, 4 or 8 bytes
from_le_bytes(b) ==
    [i \in 1..(Len(b) \div 2) |-> b[2 * i - 1] + 256 * b[2 * i]]

\* i32::to_le_bytes: two's complement
i32_to_le_bytes(v) == to_le_bytes(<<v[1], (v[2] + Limb) % Limb>>)

\* BufferParser::extract_i32 on 4 bytes
extract_i32(b) ==
    LET u == from_le_bytes(b)
    IN  IF u[2] >= Limb \div 2 THEN <<u[1], u[2] - Limb>> ELSE u

\* BufferParser::extract_u32 on 4 bytes
extract_u32(b) == from_le_bytes(b)

\* BufferParser::extract_varint (Bitcoin CompactSize). Returns the decoded
\* value and the remaining buffer, or SerializedBufferIsInvalid on underflow.
extract_varint(buf) ==
    IF Len(buf) = 0 THEN Err("SerializedBufferIsInvalid")
    ELSE LET first == buf[1]
             follow == IF first = 253 THEN 2
                       ELSE IF first = 254 THEN 4
                       ELSE IF first = 255 THEN 8 ELSE 0
         IN  IF Len(buf) < 1 + follow THEN Err("SerializedBufferIsInvalid")
             ELSE IF follow = 0
                  THEN Ok([value |-> <<first>>, rest |-> Tail(buf)])
                  ELSE Ok([value |-> from_le_bytes(SubSeq(buf, 2, 1 + follow)),
                           rest |-> SubSeq(buf, 2 + follow, Len(buf))])

\* VarIntSerialize::to_varint_bytes for usize n (n below 2^31 here)
to_varint_bytes(n) ==
    IF n < 253 THEN <<n>>
    ELSE IF n < Limb THEN <<253>> \o to_le_bytes(<<n>>)
    ELSE <<254>> \o to_le_bytes(U32(n))

(***************************************************************************)
(* BlockHeader                                                             *)
(***************************************************************************)
\* serialize with the nonce written before the bits
BlockHeaderSerializeNonceFirst(h) ==
    i32_to_le_bytes(h.version) \o h.prev_block_hash \o h.merkle_root
      \o to_le_bytes(h.timestamp) \o to_le_bytes(h.nonce)
      \o to_le_bytes(h.bits)

\* BlockHeader::serialize
BlockHeaderSerialize(h) ==
    i32_to_le_bytes(h.version) \o h.prev_block_hash \o h.merkle_root
      \o to_le_bytes(h.timestamp) \o to_le_bytes(h.bits)
      \o to_le_bytes(h.nonce)

\* sha256d::Hash::hash of the bitcoin_hashes crate: a fixed function from
\* byte strings to 32-byte digests.  Every digest byte below the five high
\* ones mixes one input byte with a weighted sum of the last four; the five
\* high bytes are zero exactly when the last input byte (the top nonce byte
\* of a header) is zero.
sha256d(b) ==
    LET n == Len(b)
        at(k) == b[((n - 1 - k) % n) + 1]
        mix == (at(0) + 3 * at(1) + 5 * at(2) + 7 * at(3)) % 256
    IN  [i \in 1..HashSize |->
            IF i <= 27 THEN (b[((i * 7) % n) + 1] + i * mix) % 256
            ELSE IF b[n] = 0 THEN 0 ELSE (b[n] + i) % 256]

\* BlockHeader::hash
hash(h) == sha256d(BlockHeaderSerialize(h))

\* validate without the test of the bytes above the exponent
validate_hash_no_zeros(hh, bits) ==
    LET bits_vec == to_be_bytes(bits)
        E == bits_vec[1]
    IN  IF E > HashSize \/ E < 3 THEN "panic"
        ELSE IF <<hh[E], hh[E - 1], hh[E - 2]>> = SubSeq(bits_vec, 2, 4) THEN "reject"
        ELSE IF \E k \in 1..3 :
                   /\ hh[E - k + 1] < bits_vec[k + 1]
                   /\ \A j \in 1..(k - 1) : hh[E - j + 1] = bits_vec[j + 1]
             THEN "accept" ELSE "reject"

\* validate with a hash equal to the mantissa on all three bytes accepted
validate_hash_le(hh, bits) ==
    LET bits_vec == to_be_bytes(bits)
        E == bits_vec[1]
    IN  IF E > HashSize THEN "panic"
        ELSE IF \E i \in (E + 1)..HashSize : hh[i] # 0 THEN "reject"
        ELSE IF E < 3 THEN "panic"
        ELSE IF \E k \in 1..3 :
                   /\ hh[E - k + 1] > bits_vec[k + 1]
                   /\ \A j \in 1..(k - 1) : hh[E - j + 1] = bits_vec[j + 1]
             THEN "reject" ELSE "accept"

\* The body of BlockHeader::validate on the header's hash hh and its bits.
\* "accept" / "reject" are the boolean results; "panic" is an unwrap on a
\* slice that is out of range (exponent above 32, or below 3 when the bytes
\* above it are all zero).
validate_hash(hh, bits) ==
    LET bits_vec == to_be_bytes(bits)
        leading_zeros_start == bits_vec[1]
    IN  IF leading_zeros_start > HashSize THEN "panic"
        ELSE IF \E i \in (leading_zeros_start + 1)..HashSize : hh[i] # 0
             THEN "reject"
        ELSE IF leading_zeros_start < 3 THEN "panic"
        ELSE LET \* hash[(E-3)..E] reversed: indices E-1, E-2, E-3 (0-based)
                 significants == [k \in 1..3 |-> hh[leading_zeros_start - k + 1]]
             IN  IF significants[1] # bits_vec[2]
                   THEN IF significants[1] < bits_vec[2] THEN "accept" ELSE "reject"
                 ELSE IF significants[2] # bits_vec[3]
                   THEN IF significants[2] < bits_vec[3] THEN "accept" ELSE "reject"
                 ELSE IF significants[3] # bits_vec[4]
                   THEN IF significants[3] < bits_vec[4] THEN "accept" ELSE "reject"
                 ELSE "reject"

\* BlockHeader::validate
validate(h) == validate_hash(hash(h), h.bits)

\* BlockHeader::parse(buffer, validate)
BlockHeaderParse(buffer, do_validate) ==
    IF Len(buffer) < HeaderSize THEN Err("SerializedBufferIsInvalid")
    ELSE LET block_header ==
                 [version |-> extract_i32(SubSeq(buffer, 1, 4)),
                  prev_block_hash |-> SubSeq(buffer, 5, 36),
                  merkle_root |-> SubSeq(buffer, 37, 68),
                  timestamp |-> extract_u32(SubSeq(buffer, 69, 72)),
                  bits |-> extract_u32(SubSeq(buffer, 73, 76)),
                  nonce |-> extract_u32(SubSeq(buffer, 77, 80))]
         IN  IF do_validate
             THEN LET is_valid == validate(block_header)
                  IN  IF is_valid = "panic" THEN Panic
                      ELSE IF is_valid = "reject" THEN Err("HeaderInvalidPoW")
                      ELSE Ok(block_header)
             ELSE Ok(block_header)

(***************************************************************************)
(* Headers message                                                         *)
(***************************************************************************)
\* impl Message for Headers :: serialize
RECURSIVE SerializeRecords(_)
SerializeRecords(headers) ==
    IF Len(headers) = 0 THEN <<>>
    ELSE BlockHeaderSerialize(headers[1]) \o <<0>> \o SerializeRecords(Tail(headers))

HeadersSerialize(headers) ==
    to_varint_bytes(Len(headers)) \o SerializeRecords(headers)

\* the while loop of Headers::parse: 81-byte records, PoW validated
RECURSIVE ParseRecords(_, _)
ParseRecords(buf, headers) ==
    IF Len(buf) >= RecordSize
    THEN LET r == BlockHeaderParse(SubSeq(buf, 1, RecordSize), TRUE)
         IN  IF IsOk(r)
             THEN ParseRecords(SubSeq(buf, RecordSize + 1, Len(buf)),
                               Append(headers, r.val))
             ELSE r
    ELSE Ok(headers)

\* impl Message for Headers :: parse
HeadersParse(buffer) ==
    LET header_count == extract_varint(buffer)
    IN  IF ~IsOk(header_count) THEN header_count
        ELSE IF Len(header_count.val.rest) % RecordSize # 0
             THEN Err("SerializedBufferIsInvalid")
        ELSE ParseRecords(header_count.val.rest, <<>>)

(***************************************************************************)
(* Block and Merkle reconstruction (block.rs)                              *)
(***************************************************************************)
\* one level of the Merkle tree: pairwise double-SHA-256, the last element
\* duplicated at an odd level
RECURSIVE MerkleLevel(_)
MerkleLevel(hs) ==
    IF Len(hs) = 0 THEN <<>>
    ELSE IF Len(hs) = 1 THEN <<sha256d(hs[1] \o hs[1])>>
    ELSE <<sha256d(hs[1] \o hs[2])>> \o MerkleLevel(SubSeq(hs, 3, Len(hs)))

RECURSIVE MerkleReduce(_)
MerkleReduce(hs) == IF Len(hs) <= 1 THEN hs ELSE MerkleReduce(MerkleLevel(hs))

MerkleRoot(txs) == MerkleReduce([i \in 1..Len(txs) |-> sha256d(txs[i])])[1]

\* Block::create_merkle_root: fails when the recomputed root differs from
\* the header's merkle_root
create_merkle_root(block) ==
    IF MerkleRoot(block.txs) = block.header.merkle_root
    THEN Ok(block.header.merkle_root)
    ELSE Err("InvalidMerkleRoot")

(***************************************************************************)
(* Values the peer can put on the wire                                     *)
(***************************************************************************)
\* The transactions of the modelled blocks (raw bytes)
Tx1 == <<1, 0, 0, 0, 1, 17>>
Tx2 == <<1, 0, 0, 0, 1, 42>>
Tx3 == <<1, 0, 0, 0, 2, 99>>

\* A header of the modelled chain; headers differ in their nonce.
\* bits 0x1d00ffff is the difficulty-1 compact target.
HeaderOf(n) ==
    [version |-> <<2, 0>>,
     prev_block_hash |-> [i \in 1..32 |-> IF i <= 28 THEN (i * 11) % 256 ELSE 0],
     merkle_root |-> MerkleRoot(<<Tx1, Tx2, Tx3>>),
     timestamp |-> U32(1347149007),
     bits |-> U32(486604799),
     nonce |-> U32(n)]

\* A parsed page of n headers, each header given by its nonce
Page(n) == [i \in 1..n |-> i % 3]

PageLens == {FullPage - 1, FullPage, FullPage + 1}

GoodBlock == [header |-> HeaderOf(5), txs |-> <<Tx1, Tx2, Tx3>>]
\* same header, one transaction replaced: the Merkle check fails
TamperedBlock == [header |-> HeaderOf(6), txs |-> <<Tx1, Tx3, Tx3>>]

\* ping nonces (u64)
Nonces == {<<0, 0, 0, 0>>, <<13398, 18, 514, 258>>}

Inv1 == [type |-> "Tx", hash |-> sha256d(Tx1)]
Inv2 == [type |-> "GetBlock", hash |-> hash(HeaderOf(5))]
InvLists == {<<Inv1, Inv2>>, <<Inv2, Inv1>>}

CodecErrors == {"SerializedBufferIsInvalid", "HeaderInvalidPoW"}

\* Payload bodies: what parsing the payload bytes yields
ErrBody(e) == [kind |-> "err", error |-> e]
PageBody(p) == [kind |-> "page", headers |-> p]
BlockBody(b) == [kind |-> "block", block |-> b]
PingBody(n) == [kind |-> "ping", nonce |-> n]
InvBody(l) == [kind |-> "inv", inventories |-> l]
RawBody == [kind |-> "raw"]

Frame(c, n, b) == [malformed |-> FALSE, command |-> c, payload_size |-> n, body |-> b]

\* a frame whose 24 header bytes do not parse
MalformedFrame == [malformed |-> TRUE, command |-> "", payload_size |-> 0, body |-> RawBody]

PagePayloadSize(n) == Len(to_varint_bytes(n)) + RecordSize * n

HeadersFrames ==
    {Frame("headers", PagePayloadSize(n), PageBody(Page(n))) : n \in PageLens}
      \cup {Frame("headers", 45, ErrBody(e)) : e \in CodecErrors}

BlockFrames ==
    {Frame("block", 99, BlockBody(b)) : b \in {GoodBlock, TamperedBlock}}
      \cup {Frame("block", 60, ErrBody("SerializedBufferIsInvalid"))}

PingFrames ==
    {Frame("ping", 8, PingBody(n)) : n \in Nonces}
      \cup {Frame("ping", 3, ErrBody("SerializedBufferIsInvalid"))}

NotfoundFrames ==
    {Frame("notfound", 73, InvBody(l)) : l \in InvLists}
      \cup {Frame("notfound", 5, ErrBody("SerializedBufferIsInvalid"))}

SilentCommands == {"alert", "addr", "inv", "sendheaders"}

OtherFrames ==
    {Frame(c, 37, RawBody) : c \in SilentCommands}
      \cup {Frame("tx", 0, RawBody), Frame("verack", 5, RawBody)}

Frames == HeadersFrames \cup BlockFrames \cup PingFrames \cup NotfoundFrames
            \cup OtherFrames \cup {MalformedFrame}

(***************************************************************************)
(* State                                                                   *)
(***************************************************************************)
VARIABLES
    pc,               \* "read": at MessageHeader::read (line 48);
                      \* "dispatch": at the match (line 50); "done": returned
    exit_error,       \* the Err returned by event_loop, "none" while running
    version,          \* PeerStreamLoop.version
    response_header,  \* the MessageHeader read last
    wire,             \* what the payload bytes still on the stream parse to
    stream_alive,     \* the TCP stream is open
    consumed,         \* bytes read from the stream so far
    stream_out,       \* frames written to the stream
    node_actions,     \* NodeActions delivered on node_action_sender
    receiver_alive,   \* the receiver of node_action_sender exists
    logs,             \* lines delivered on logger_sender
    logger_alive,     \* the receiver of logger_sender exists
    commands,         \* commands of the frames read so far, in order
    payload_sizes,    \* payload_size of the frames read so far, in order
    action_from,      \* for each node action, the index of the frame handled
    write_from,       \* for each written frame, the index of the frame handled
    log_from,         \* for each log line, the index of the frame handled
    cbuf,             \* codec: the payload given to Headers::parse
    cres,             \* codec: the result of Headers::parse
    cout,             \* codec: Headers::serialize of the parsed page
    cpc,              \* codec: "idle", "input", "parsed", "serialized"
    vhash,            \* PoW: the 32-byte hash of a header
    bits1,            \* PoW: a bits value the hash is validated under
    bits2,            \* PoW: a second bits value for the same hash
    is_valid1,        \* PoW: the outcome of validate under bits1
    is_valid2,        \* PoW: the outcome of validate under bits2
    vpc,              \* PoW: "idle", "input", "first", "second"
    wallets,          \* wallet file: the wallets that are serialized
    wbuf,             \* wallet file: the buffer given to parse_wallets
    wres,             \* wallet file: the result of parse_wallets
    wpc,              \* wallet file: "idle", "wallets", "buffer", "parsed"
    gpc,              \* GUIBalance: position in handle_events
    message,          \* GUIBalance: the GUIActions value being handled
    builder,          \* GUIBalance: which elements the gtk::Builder holds
    node_state,       \* NodeState: what get_balance / get_pending_tx return
    poisoned,         \* the NodeState mutex is poisoned
    lock_held,        \* the GUI thread holds the NodeState mutex
    result,           \* GUIBalance: the Err being returned to handle_events
    label_balance,    \* text of the "label-balance" label
    pending_rows,     \* rows of the "pending-transactions-list" list box
    gui_logs,         \* Log values sent on GUIBalance.logger_sender
    stdout            \* lines written by println!

loop_vars == <<pc, exit_error, version, response_header, wire, stream_alive,
               consumed, stream_out, node_actions, receiver_alive, logs,
               logger_alive, commands, payload_sizes, action_from, write_from,
               log_from>>
codec_vars == <<cbuf, cres, cout, cpc>>
pow_vars == <<vhash, bits1, bits2, is_valid1, is_valid2, vpc>>
\* what the peer loop leaves alone, and what the Headers codec leaves alone
wallet_vars == <<wallets, wbuf, wres, wpc>>
gui_vars == <<gpc, message, builder, node_state, poisoned, lock_held, result,
              label_balance, pending_rows, gui_logs, stdout>>
\* what each component leaves alone
pure_vars == <<codec_vars, pow_vars, wallet_vars, gui_vars>>
non_codec_vars == <<loop_vars, pow_vars, wallet_vars, gui_vars>>
non_pow_vars == <<loop_vars, codec_vars, wallet_vars, gui_vars>>
non_wallet_vars == <<loop_vars, codec_vars, pow_vars, gui_vars>>
non_gui_vars == <<loop_vars, codec_vars, pow_vars, wallet_vars>>
vars == <<loop_vars, codec_vars, pow_vars, wallet_vars, gui_vars>>

NoHeader == [command |-> "", payload_size |-> 0]

LoopInit ==
    /\ pc = "read"
    /\ exit_error = "none"
    /\ version \in {70015}
    /\ response_header = NoHeader
    /\ wire = RawBody
    /\ stream_alive = TRUE
    /\ consumed = 0
    /\ stream_out = <<>>
    /\ node_actions = <<>>
    /\ receiver_alive = TRUE
    /\ logs = <<>>
    /\ logger_alive = TRUE
    /\ commands = <<>>
    /\ payload_sizes = <<>>
    /\ action_from = <<>>
    /\ write_from = <<>>
    /\ log_from = <<>>

CodecIdle ==
    /\ cbuf = <<>>
    /\ cres = Err("none")
    /\ cout = <<>>
    /\ cpc = "idle"

PowIdle ==
    /\ vhash = <<>>
    /\ bits1 = <<0, 0>>
    /\ bits2 = <<0, 0>>
    /\ is_valid1 = "none"
    /\ is_valid2 = "none"
    /\ vpc = "idle"

WalletIdle ==
    /\ wallets = <<>>
    /\ wbuf = <<>>
    /\ wres = Err("none")
    /\ wpc = "idle"

GuiIdle ==
    /\ gpc = "idle"
    /\ message = "none"
    /\ builder = [label |-> TRUE, list |-> TRUE]
    /\ node_state = [balance |-> Ok(0), pending |-> Ok(<<>>)]
    /\ poisoned = FALSE
    /\ lock_held = FALSE
    /\ result = "none"
    /\ label_balance = [text |-> "", e8 |-> 0]
    /\ pending_rows = <<>>
    /\ gui_logs = <<>>
    /\ stdout = <<>>

(***************************************************************************)
(* NodeAction values and frames written by the loop                        *)
(***************************************************************************)
NewHeaders(page) == [type |-> "NewHeaders", headers |-> page]
GetHeadersError == [type |-> "GetHeadersError"]
BlockAction(h, b) == [type |-> "Block", hash |-> h, block |-> b]
GetDataError(invs) == [type |-> "GetDataError", inventories |-> invs]

\* Pong { nonce }.send(stream)
Pong(n) == [command |-> "pong", nonce |-> n]
\* the GetHeaders that request_headers (peer.rs) sends for a locator hash
GetHeaders(v, h) == [command |-> "getheaders", version |-> v, locator |-> <<h>>]

\* Inventory::new
Inventory(t, h) == [type |-> t, hash |-> h]

(***************************************************************************)
(* Stream reads.  read_exact either delivers all n bytes or fails after    *)
(* having consumed fewer than n.                                           *)
(***************************************************************************)
PartialReads(n) == {k \in {0, 1, n - 1} : k >= 0 /\ k < n}

\* Message::read(stream, payload_size): read exactly payload_size bytes,
\* then parse them
MessageRead(body, io_ok) ==
    IF ~io_ok THEN Err("Io")
    ELSE IF body.kind = "err" THEN Err(body.error)
    ELSE Ok(body)

\* The effect of one handler call: its return value ("Ok" or the error it
\* returns), what it sent and wrote, and the bytes it took from the stream
Outcome(ret, acts, writes, lgs, nbytes) ==
    [ret |-> ret, actions |-> acts, writes |-> writes, logs |-> lgs,
     bytes |-> nbytes]

(***************************************************************************)
(* The handlers of PeerStreamLoop, as functions of the frame and of the    *)
(* environment e at the time of the call:                                  *)
(*   e.read_ok   the payload read succeeds                                 *)
(*   e.write_ok  a write to the stream succeeds                            *)
(*   e.partial   bytes consumed by a failed read                           *)
(*   e.rx, e.lg  the action / logger receiver exists                       *)
(***************************************************************************)
\* response.headers.len() == 2000
IsFullPage(page) == Len(page) = FullPage

LocatorFirst(page) == hash(HeaderOf(page[1]))

\* response.headers.last().map(|h| h.hash())
Locator(page) == hash(HeaderOf(Last(page)))

BytesRead(rh, e) == IF e.read_ok THEN rh.payload_size ELSE e.partial

on_headers_error_dropped(e, nbytes) == Outcome("Ok", <<>>, <<>>, <<>>, nbytes)

\* the Err(_) arm of handle_headers: send GetHeadersError, return Ok(())
on_headers_error(e, nbytes) ==
    IF e.rx THEN Outcome("Ok", <<GetHeadersError>>, <<>>, <<>>, nbytes)
    ELSE Outcome("ChannelClosed", <<>>, <<>>, <<>>, nbytes)

\* PeerStreamLoop::handle_headers
handle_headers(rh, body, v, e) ==
    LET response == MessageRead(body, e.read_ok)
        nbytes == BytesRead(rh, e)
    IN  IF ~IsOk(response)
        THEN on_headers_error(e, nbytes)
        ELSE LET page == response.val.headers
                 writes == IF IsFullPage(page)
                           THEN <<GetHeaders(v, Locator(page))>> ELSE <<>>
             IN  IF IsFullPage(page) /\ ~e.write_ok
                 THEN Outcome("Io", <<>>, <<>>, <<>>, nbytes)
                 ELSE IF e.rx
                      THEN Outcome("Ok", <<NewHeaders(page)>>, writes, <<>>, nbytes)
                      ELSE Outcome("ChannelClosed", <<>>, writes, <<>>, nbytes)

MerkleInventoryOfRoot(block) == Inventory("GetBlock", block.header.merkle_root)

\* the inventory reported for a block whose Merkle check failed
MerkleInventory(block) == Inventory("GetBlock", hash(block.header))

MerkleLog(block) == [line |-> "Error validating the merkle root in the block", hash |-> hash(block.header)]

\* PeerStreamLoop::handle_block
handle_block(rh, body, e) ==
    LET read == MessageRead(body, e.read_ok)
        nbytes == BytesRead(rh, e)
    IN  IF ~IsOk(read) THEN Outcome(read.err, <<>>, <<>>, <<>>, nbytes)
        ELSE LET block == read.val.block
             IN  IF IsOk(create_merkle_root(block))
                 THEN IF e.rx
                      THEN Outcome("Ok", <<BlockAction(hash(block.header), block)>>,
                                   <<>>, <<>>, nbytes)
                      ELSE Outcome("ChannelClosed", <<>>, <<>>, <<>>, nbytes)
                 ELSE IF ~e.rx
                      THEN Outcome("ChannelClosed", <<>>, <<>>, <<>>, nbytes)
                      ELSE LET acts == <<GetDataError(<<MerkleInventory(block)>>)>>
                           IN  IF e.lg
                               THEN Outcome("Ok", acts, <<>>, <<MerkleLog(block)>>, nbytes)
                               ELSE Outcome("ChannelClosed", acts, <<>>, <<>>, nbytes)

PongZero(ping) == Pong(<<0, 0, 0, 0>>)

\* let pong = Pong { nonce: ping.nonce }
PongFor(ping) == Pong(ping.nonce)

\* PeerStreamLoop::handle_ping
handle_ping(rh, body, e) ==
    LET read == MessageRead(body, e.read_ok)
        nbytes == BytesRead(rh, e)
    IN  IF ~IsOk(read) THEN Outcome(read.err, <<>>, <<>>, <<>>, nbytes)
        ELSE IF ~e.write_ok THEN Outcome("Io", <<>>, <<>>, <<>>, nbytes)
        ELSE Outcome("Ok", <<>>, <<PongFor(read.val)>>, <<>>, nbytes)

\* GetData::get_inventories
get_inventories(notfound) == notfound.inventories

NotfoundActionFirst(notfound) == GetDataError(SubSeq(get_inventories(notfound), 1, 1))

\* NodeAction::GetDataError(notfound.get_inventories().to_owned())
NotfoundAction(notfound) == GetDataError(get_inventories(notfound))

\* PeerStreamLoop::handle_notfound
handle_notfound(rh, body, e) ==
    LET read == MessageRead(body, e.read_ok)
        nbytes == BytesRead(rh, e)
    IN  IF ~IsOk(read) THEN Outcome(read.err, <<>>, <<>>, <<>>, nbytes)
        ELSE IF e.rx
             THEN Outcome("Ok", <<NotfoundAction(read.val)>>,
                          <<>>, <<>>, nbytes)
             ELSE Outcome("ChannelClosed", <<>>, <<>>, <<>>, nbytes)

IsUnknownCommandNoInv(cmd) ==
    cmd # "alert" /\ cmd # "addr" /\ cmd # "sendheaders"

\* cmd != "alert" && cmd != "addr" && cmd != "inv" && cmd != "sendheaders"
IsUnknownCommand(cmd) ==
    cmd # "alert" /\ cmd # "addr" /\ cmd # "inv" /\ cmd # "sendheaders"

UnknownLog(cmd) == [line |-> "Received unknown command", command |-> cmd]

\* PeerStreamLoop::ignore_message
ignore_message(rh, e) ==
    LET cmd == rh.command
        lgs == IF IsUnknownCommand(cmd) THEN <<UnknownLog(cmd)>> ELSE <<>>
    IN  IF IsUnknownCommand(cmd) /\ ~e.lg
        THEN Outcome("ChannelClosed", <<>>, <<>>, <<>>, 0)
        ELSE IF e.read_ok
             THEN Outcome("Ok", <<>>, <<>>, lgs, rh.payload_size)
             ELSE Outcome("Io", <<>>, <<>>, lgs, e.partial)

\* the match of event_loop (lines 50-56)
dispatch(rh, body, v, e) ==
    IF rh.command = "headers" THEN handle_headers(rh, body, v, e)
    ELSE IF rh.command = "block" THEN handle_block(rh, body, e)
    ELSE IF rh.command = "ping" THEN handle_ping(rh, body, e)
    ELSE IF rh.command = "notfound" THEN handle_notfound(rh, body, e)
    ELSE ignore_message(rh, e)

(***************************************************************************)
(* Actions of the peer loop                                                *)
(***************************************************************************)
SendFront(queue, values) == values \o queue

\* mpsc::Sender::send on a live channel: the value joins the end of the queue
Send(queue, values) == queue \o values

Tags(values) == [i \in 1..Len(values) |-> Len(commands)]

\* line 48, MessageHeader::read succeeds: the peer's next frame is f
ReadHeader(f) ==
    /\ pc = "read"
    /\ stream_alive
    /\ Len(commands) < MaxMsgs
    /\ consumed' = consumed + FrameHeaderSize
    /\ IF f.malformed
       THEN /\ pc' = "done"
            /\ exit_error' = "SerializedBufferIsInvalid"
            /\ UNCHANGED <<response_header, wire, commands, payload_sizes>>
       ELSE /\ pc' = "dispatch"
            /\ response_header' = [command |-> f.command, payload_size |-> f.payload_size]
            /\ wire' = f.body
            /\ commands' = Append(commands, f.command)
            /\ payload_sizes' = Append(payload_sizes, f.payload_size)
            /\ UNCHANGED exit_error
    /\ UNCHANGED <<version, stream_alive, stream_out, node_actions, receiver_alive,
                   logs, logger_alive, action_from, write_from, log_from, pure_vars>>

\* line 48, MessageHeader::read fails on a closed stream: `?` returns the error
ReadHeaderFail ==
    /\ pc = "read"
    /\ ~stream_alive
    /\ \E p \in PartialReads(FrameHeaderSize) : consumed' = consumed + p
    /\ pc' = "done"
    /\ exit_error' = "Io"
    /\ UNCHANGED <<version, response_header, wire, stream_alive, stream_out,
                   node_actions, receiver_alive, logs, logger_alive, commands, payload_sizes,
                   action_from, write_from, log_from, pure_vars>>

\* The environment of one handler call.  brk = 1: the stream breaks before
\* the payload read; brk = 2: after the read and before the handler's write.
\* A read of zero bytes succeeds on any stream.
Env(brk, p) ==
    [read_ok |-> response_header.payload_size = 0 \/ (stream_alive /\ brk # 1),
     write_ok |-> stream_alive /\ brk = 0,
     partial |-> p,
     rx |-> receiver_alive,
     lg |-> logger_alive]

\* lines 50-56: one arm of the match runs to its return
Handle(cmds, brk, p) ==
    /\ pc = "dispatch"
    /\ response_header.command \in cmds
    /\ brk # 0 => stream_alive
    /\ LET e == Env(brk, p)
           o == dispatch(response_header, wire, version, e)
       IN  /\ p \in (IF e.read_ok THEN {0} ELSE PartialReads(response_header.payload_size))
           /\ pc' = IF o.ret = "Ok" THEN "read" ELSE "done"
           /\ exit_error' = IF o.ret = "Ok" THEN exit_error ELSE o.ret
           /\ consumed' = consumed + o.bytes
           /\ node_actions' = Send(node_actions, o.actions)
           /\ action_from' = action_from \o Tags(o.actions)
           /\ stream_out' = stream_out \o o.writes
           /\ write_from' = write_from \o Tags(o.writes)
           /\ logs' = Send(logs, o.logs)
           /\ log_from' = log_from \o Tags(o.logs)
    /\ stream_alive' = (stream_alive /\ brk = 0)
    /\ UNCHANGED <<version, response_header, wire, receiver_alive, logger_alive,
                   commands, payload_sizes, pure_vars>>

Breaks == 0..2
Partials == {0, 1} \cup {f.payload_size - 1 : f \in Frames}

HandleHeaders == \E brk \in Breaks, p \in Partials : Handle({"headers"}, brk, p)
HandleBlock == \E brk \in Breaks, p \in Partials : Handle({"block"}, brk, p)
HandlePing == \E brk \in Breaks, p \in Partials : Handle({"ping"}, brk, p)
HandleNotfound == \E brk \in Breaks, p \in Partials : Handle({"notfound"}, brk, p)
IgnoreMessage ==
    \E brk \in Breaks, p \in Partials :
        /\ response_header.command \notin {"headers", "block", "ping", "notfound"}
        /\ Handle({response_header.command}, brk, p)

\* the supervisor or the peer closes the stream
CloseStream ==
    /\ pc # "done"
    /\ stream_alive
    /\ stream_alive' = FALSE
    /\ UNCHANGED <<pc, exit_error, version, response_header, wire, consumed,
                   stream_out, node_actions, receiver_alive, logs, logger_alive,
                   commands, payload_sizes, action_from, write_from, log_from,
                   pure_vars>>

\* the node drops the receiver of the action channel
DropReceiver ==
    /\ pc # "done"
    /\ receiver_alive
    /\ receiver_alive' = FALSE
    /\ UNCHANGED <<pc, exit_error, version, response_header, wire, stream_alive,
                   consumed, stream_out, node_actions, logs, logger_alive,
                   commands, payload_sizes, action_from, write_from, log_from,
                   pure_vars>>

\* the logger thread drops the receiver of the logger channel
DropLogger ==
    /\ pc # "done"
    /\ logger_alive
    /\ logger_alive' = FALSE
    /\ UNCHANGED <<pc, exit_error, version, response_header, wire, stream_alive,
                   consumed, stream_out, node_actions, receiver_alive, logs,
                   commands, payload_sizes, action_from, write_from, log_from,
                   pure_vars>>

Init == LoopInit /\ CodecIdle /\ PowIdle /\ WalletIdle /\ GuiIdle

Next ==
    \/ \E f \in Frames : ReadHeader(f)
    \/ ReadHeaderFail
    \/ HandleHeaders
    \/ HandleBlock
    \/ HandlePing
    \/ HandleNotfound
    \/ IgnoreMessage
    \/ CloseStream
    \/ DropReceiver
    \/ DropLogger

Spec == Init /\ [][Next]_vars

(***************************************************************************)
(* Properties of the peer loop                                             *)
(***************************************************************************)
\* a step in which the handler of a frame with command cmd runs to its return
Handled(cmd) ==
    pc = "dispatch" /\ pc' # "dispatch" /\ response_header.command = cmd

\* the step read the whole payload of the frame
PayloadRead == consumed' = consumed + response_header.payload_size

\* C1: handling a `headers` frame whose payload was read and parses to a
\* page of exactly 2000 headers writes a GetHeaders whose locator is the hash
\* of the page's last header and then forwards NewHeaders(page), and the
\* loop goes on; the only other outcome is the loop's exit with an I/O or
\* channel error (broken stream, dropped receiver), with NewHeaders not sent.
C1_FullPageContinuesSync ==
    [][ (Handled("headers") /\ PayloadRead /\ wire.kind = "page"
           /\ Len(wire.headers) = FullPage)
        => LET page == wire.headers
               req == GetHeaders(version, hash(HeaderOf(page[FullPage])))
           IN  IF stream_alive' /\ receiver_alive
               THEN /\ stream_out' = Append(stream_out, req)
                    /\ node_actions' = Append(node_actions, NewHeaders(page))
                    /\ pc' = "read"
               ELSE /\ pc' = "done"
                    /\ exit_error' \in {"Io", "ChannelClosed"}
                    /\ node_actions' = node_actions ]_vars

C1_Witness ==
    /\ node_actions # <<>>
    /\ Last(node_actions).type = "NewHeaders"
    /\ Len(Last(node_actions).headers) = FullPage
    /\ stream_out # <<>>
    /\ Last(stream_out).command = "getheaders"
    /\ Last(stream_out).locator = <<hash(HeaderOf(Last(Last(node_actions).headers)))>>
    /\ pc = "read"

\* C2: handling a `ping` frame never sends a NodeAction; when the ping with
\* nonce N was read and the stream is still open, exactly one pong carrying
\* N is written and the loop goes on, otherwise nothing is written and the
\* loop exits with the I/O error.
C2_PingAnsweredWithSameNonce ==
    [][ Handled("ping")
        => /\ node_actions' = node_actions
           /\ (PayloadRead /\ wire.kind = "ping")
                => IF stream_alive'
                   THEN /\ stream_out' = Append(stream_out, Pong(wire.nonce))
                        /\ pc' = "read"
                   ELSE /\ stream_out' = stream_out
                        /\ pc' = "done"
                        /\ exit_error' = "Io" ]_vars

C2_Witness ==
    /\ commands = <<"ping", "ping">>
    /\ pc = "read"
    /\ stream_out = <<Pong(<<13398, 18, 514, 258>>), Pong(<<0, 0, 0, 0>>)>>
    /\ node_actions = <<>>

\* C3 (as claimed): the loop exits only with an I/O error or a channel-send
\* error; a wire-codec error never ends it.
C3_ExitsOnlyOnIoOrChannelError ==
    pc = "done" => exit_error \in {"Io", "ChannelClosed"}

\* C4 (as claimed): when the payload read of a headers, block, ping or
\* notfound frame fails, the loop exits with the I/O error at that read,
\* sends no NodeAction for the frame and attempts no further read.
C4_IoErrorEndsLoop ==
    [][ (pc = "dispatch" /\ pc' # "dispatch"
           /\ response_header.command \in {"headers", "block", "ping", "notfound"}
           /\ ~PayloadRead)
        => /\ pc' = "done"
           /\ exit_error' = "Io"
           /\ node_actions' = node_actions ]_vars

\* C5: handling a `headers` frame whose payload was read and fails to parse
\* forwards exactly GetHeadersError, writes nothing to the stream, and the
\* loop goes on to the next frame (it exits with ChannelClosed, nothing
\* sent, only when the action receiver is gone).
C5_ParseFailureForwardsGetHeadersError ==
    [][ (Handled("headers") /\ PayloadRead /\ wire.kind = "err")
        => /\ stream_out' = stream_out
           /\ logs' = logs
           /\ IF receiver_alive
              THEN /\ node_actions' = Append(node_actions, GetHeadersError)
                   /\ pc' = "read"
              ELSE /\ node_actions' = node_actions
                   /\ pc' = "done"
                   /\ exit_error' = "ChannelClosed" ]_vars

C5_Witness ==
    /\ commands = <<"headers">>
    /\ wire.kind = "err"
    /\ wire.error = "HeaderInvalidPoW"
    /\ consumed = FrameHeaderSize + response_header.payload_size
    /\ node_actions = <<GetHeadersError>>
    /\ stream_out = <<>>
    /\ pc = "read"

\* C6: handling a parsed `block` frame forwards Block(header hash, block)
\* when the Merkle root recomputed from the transactions equals the header's
\* merkle_root, and otherwise forwards GetDataError with the single
\* block-type inventory of the header hash and then emits one log line;
\* Block is never forwarded for a block whose Merkle check failed.
C6_BlockForwardedIffMerkleRootMatches ==
    [][ (Handled("block") /\ PayloadRead /\ wire.kind = "block")
        => LET block == wire.block
               h == hash(block.header)
               sent == SubSeq(node_actions', Len(node_actions) + 1, Len(node_actions'))
           IN  /\ stream_out' = stream_out
               /\ IF MerkleRoot(block.txs) = block.header.merkle_root
                  THEN /\ logs' = logs
                       /\ sent = IF receiver_alive
                                 THEN <<BlockAction(h, block)>> ELSE <<>>
                       /\ pc' = "read" <=> receiver_alive
                  ELSE /\ sent = IF receiver_alive
                                 THEN <<GetDataError(<<Inventory("GetBlock", h)>>)>>
                                 ELSE <<>>
                       /\ Len(logs') = Len(logs)
                            + (IF receiver_alive /\ logger_alive THEN 1 ELSE 0)
                       /\ pc' = "read" <=> (receiver_alive /\ logger_alive) ]_vars

C6_Witness ==
    /\ commands = <<"block", "block">>
    /\ pc = "read"
    /\ node_actions = <<BlockAction(hash(GoodBlock.header), GoodBlock),
                        GetDataError(<<Inventory("GetBlock", hash(TamperedBlock.header))>>)>>
    /\ Len(logs) = 1

\* C7: handling a parsed `notfound` frame forwards GetDataError carrying the
\* frame's inventory list unchanged and in order (nothing is sent, and the
\* loop exits, only when the action receiver is gone).
C7_NotfoundInventoriesSurfaced ==
    [][ (Handled("notfound") /\ PayloadRead /\ wire.kind = "inv")
        => /\ stream_out' = stream_out
           /\ logs' = logs
           /\ IF receiver_alive
              THEN /\ node_actions' = Append(node_actions, GetDataError(wire.inventories))
                   /\ pc' = "read"
              ELSE /\ node_actions' = node_actions
                   /\ pc' = "done"
                   /\ exit_error' = "ChannelClosed" ]_vars

C7_Witness ==
    /\ commands = <<"notfound">>
    /\ pc = "read"
    /\ node_actions = <<GetDataError(<<Inv2, Inv1>>)>>

\* C8: handling a frame whose command is none of headers, block, ping,
\* notfound sends no NodeAction and writes nothing; a log line is emitted
\* if and only if the command is not alert, addr, inv or sendheaders (and
\* the logger exists); and when the handler returns Ok it has taken exactly
\* payload_size bytes from the stream.
C8_OtherCommandsDrained ==
    [][ (pc = "dispatch" /\ pc' # "dispatch"
           /\ response_header.command \notin {"headers", "block", "ping", "notfound"})
        => LET cmd == response_header.command
               silent == cmd \in {"alert", "addr", "inv", "sendheaders"}
           IN  /\ node_actions' = node_actions
               /\ stream_out' = stream_out
               /\ logs' = IF silent \/ ~logger_alive
                          THEN logs ELSE Append(logs, UnknownLog(cmd))
               /\ pc' = "read" => PayloadRead
               /\ (stream_alive' /\ (silent \/ logger_alive)) => pc' = "read" ]_vars

C8_Witness ==
    /\ commands = <<"inv", "verack">>
    /\ pc = "read"
    /\ consumed = 2 * FrameHeaderSize + 37 + 5
    /\ logs = <<UnknownLog("verack")>>
    /\ node_actions = <<>>

\* which command a NodeAction, a written frame or a log line comes from
ActionCausedBy(a, cmd) ==
    \/ a.type \in {"NewHeaders", "GetHeadersError"} /\ cmd = "headers"
    \/ a.type = "Block" /\ cmd = "block"
    \/ a.type = "GetDataError" /\ cmd \in {"block", "notfound"}

WriteCausedBy(w, cmd) ==
    \/ w.command = "pong" /\ cmd = "ping"
    \/ w.command = "getheaders" /\ cmd = "headers"

NonDecreasing(s) == \A i \in 1..(Len(s) - 1) : s[i] <= s[i + 1]

OutputsInArrivalOrder ==
    /\ NonDecreasing(action_from)
    /\ NonDecreasing(write_from)
    /\ NonDecreasing(log_from)
    /\ \A i \in 1..Len(node_actions) :
          /\ action_from[i] \in 1..Len(commands)
          /\ ActionCausedBy(node_actions[i], commands[action_from[i]])
    /\ \A i \in 1..Len(stream_out) :
          /\ write_from[i] \in 1..Len(commands)
          /\ WriteCausedBy(stream_out[i], commands[write_from[i]])
    /\ \A i \in 1..Len(logs) : log_from[i] \in 1..Len(commands)

\* C9: the NodeActions sent, the frames written and the log lines emitted
\* follow the order of the frames that caused them, and a frame is read only
\* when the handling of the previous one has returned: a step that reads a
\* frame emits nothing, and a step that emits something is the handler of
\* the frame read last.
C9_ArrivalOrder ==
    /\ []OutputsInArrivalOrder
    /\ [][ /\ commands' # commands
              => /\ pc = "read"
                 /\ node_actions' = node_actions
                 /\ stream_out' = stream_out
                 /\ logs' = logs
           /\ (node_actions' # node_actions \/ stream_out' # stream_out \/ logs' # logs)
              => /\ pc = "dispatch"
                 /\ pc' \in {"read", "done"}
                 /\ commands' = commands ]_vars

C9_Witness ==
    /\ commands = <<"notfound", "headers">>
    /\ pc = "read"
    /\ Len(node_actions) = 2
    /\ node_actions[1].type = "GetDataError"
    /\ node_actions[2].type = "NewHeaders"
    /\ action_from = <<1, 2>>

\* the bytes of the frames read so far: 24 + payload_size for each
RECURSIVE FrameBytes(_)
FrameBytes(sizes) ==
    IF Len(sizes) = 0 THEN 0
    ELSE FrameHeaderSize + sizes[1] + FrameBytes(Tail(sizes))

\* C18 (as claimed): whenever event_loop is about to read a MessageHeader,
\* the bytes consumed from the stream are the sum, over the messages handled
\* so far, of 24 + payload_size.
C18_FrameAlignment ==
    pc = "read" => consumed = FrameBytes(payload_sizes)

(***************************************************************************)
(* The Headers codec on payloads: parse, then serialize the parsed page    *)
(***************************************************************************)
\* headers of the payloads: accepted PoW, negative version, rejected PoW
\* (top nonce byte set), and an exponent byte of 33
HeaderPool ==
    {HeaderOf(5),
     [HeaderOf(9) EXCEPT !.version = <<65535, -1>>],
     [HeaderOf(0) EXCEPT !.nonce = <<1, 256>>],
     [HeaderOf(5) EXCEPT !.bits = <<65535, 8448>>]}

\* 81-byte records: a header and the byte that follows it
Records == {BlockHeaderSerialize(h) \o <<t>> : h \in HeaderPool, t \in {0, 7}}

RECURSIVE Concat(_)
Concat(ss) == IF Len(ss) = 0 THEN <<>> ELSE ss[1] \o Concat(Tail(ss))

RecordRuns == UNION {[1..n -> Records] : n \in 0..MaxRecords}

\* whole records, and the same with the last byte cut off or 45 bytes kept
Bodies ==
    {Concat(r) : r \in RecordRuns}
      \cup {SubSeq(Concat(r), 1, Len(r) * RecordSize - 1) : r \in RecordRuns \ {<<>>}}
      \cup {SubSeq(Concat(r), 1, 45) : r \in [1..1 -> Records]}

\* count prefixes: one-byte counts, a three-byte encoding of 1, a cut-off
\* three-byte encoding, and none
Prefixes == {<<0>>, <<1>>, <<2>>, <<5>>, <<253, 1, 0>>, <<253>>, <<>>}

Payloads == {pre \o body : pre \in Prefixes, body \in Bodies}

CodecInit ==
    /\ LoopInit
    /\ PowIdle
    /\ WalletIdle
    /\ GuiIdle
    /\ cbuf \in Payloads
    /\ cres = Err("none")
    /\ cout = <<>>
    /\ cpc = "input"

\* let headers = Headers::parse(buffer)
DoHeadersParse ==
    /\ cpc = "input"
    /\ cres' = HeadersParse(cbuf)
    /\ cpc' = "parsed"
    /\ UNCHANGED <<cbuf, cout, non_codec_vars>>

\* headers.unwrap().serialize()
DoHeadersSerialize ==
    /\ cpc = "parsed"
    /\ IsOk(cres)
    /\ cout' = HeadersSerialize(cres.val)
    /\ cpc' = "serialized"
    /\ UNCHANGED <<cbuf, cres, non_codec_vars>>

CodecNext == DoHeadersParse \/ DoHeadersSerialize

SpecCodec == CodecInit /\ [][CodecNext]_vars

\* C10 (as claimed): for every payload that Headers::parse accepts,
\* serializing the parsed page gives the payload back byte for byte.
C10_HeadersPageRoundTrip ==
    cpc = "serialized" => cout = cbuf

\* the limbs of a decoded varint denote the number n
CountIs(value, n) ==
    value[1] = n /\ \A i \in 2..Len(value) : value[i] = 0

\* C19 (as claimed): whenever Headers::parse succeeds, the number of headers
\* in the page is the count that the leading varint declares.
C19_PageLengthIsDeclaredCount ==
    (cpc \in {"parsed", "serialized"} /\ IsOk(cres))
        => CountIs(extract_varint(cbuf).val.value, Len(cres.val))

(***************************************************************************)
(* Failures of Headers::parse                                              *)
(***************************************************************************)
\* the i-th 81-byte record of the bytes that follow the count
RecordAt(rest, i) == SubSeq(rest, (i - 1) * RecordSize + 1, i * RecordSize)

\* what BlockHeader::validate gives on the header held by a record
RecordPoW(rec) == validate(BlockHeaderParse(rec, FALSE).val)

\* C11 (as claimed): Headers::parse fails with SerializedBufferIsInvalid
\* whenever the bytes after the count varint are not a multiple of 81 long,
\* and fails with HeaderInvalidPoW whenever they are and one of the 81-byte
\* records holds a header that validate rejects; a failure carries no page.
C11_ParseFailsOnBadTailOrPoW ==
    (cpc = "parsed" /\ IsOk(extract_varint(cbuf))) =>
        LET rest == extract_varint(cbuf).val.rest
        IN  /\ Len(rest) % RecordSize # 0
                => cres = Err("SerializedBufferIsInvalid")
            /\ (/\ Len(rest) % RecordSize = 0
                /\ \E i \in 1..(Len(rest) \div RecordSize) :
                       RecordPoW(RecordAt(rest, i)) = "reject")
                => cres = Err("HeaderInvalidPoW")

(***************************************************************************)
(* BlockHeader::validate on hashes and bits values                         *)
(***************************************************************************)
\* exponent bytes: below 3, the least in range, Bitcoin-sized ones, the
\* greatest in range, and above the hash
Exponents == {2, 3, 29, 30, 32, 33}

\* mantissas, most significant byte first
Mantissas == {<<0, 255, 255>>, <<1, 0, 0>>, <<0, 0, 1>>}

\* the u32 bits with exponent byte e and mantissa m
Bits(e, m) == <<m[2] * 256 + m[3], e * 256 + m[1]>>

BitsPool == {Bits(e, m) : e \in Exponents, m \in Mantissas}

\* hashes with at most two non-zero bytes, at the low end and around the
\* exponents (positions count from 1)
HashPool ==
    {[i \in 1..HashSize |-> IF i = p THEN v ELSE IF i = q THEN w ELSE 0] :
        p, q \in {1, 2, 3, 27, 28, 29, 30, 31, 32}, v, w \in {0, 1, 255}}

PowInit ==
    /\ LoopInit
    /\ CodecIdle
    /\ WalletIdle
    /\ GuiIdle
    /\ vhash \in HashPool
    /\ bits1 \in BitsPool
    /\ bits2 \in BitsPool
    /\ is_valid1 = "none"
    /\ is_valid2 = "none"
    /\ vpc = "input"

\* validate() of a header with hash vhash and bits bits1
ValidateFirst ==
    /\ vpc = "input"
    /\ is_valid1' = validate_hash(vhash, bits1)
    /\ vpc' = "first"
    /\ UNCHANGED <<vhash, bits1, bits2, is_valid2, non_pow_vars>>

\* validate() of a header with the same hash and bits bits2
ValidateSecond ==
    /\ vpc = "first"
    /\ is_valid2' = validate_hash(vhash, bits2)
    /\ vpc' = "second"
    /\ UNCHANGED <<vhash, bits1, bits2, is_valid1, non_pow_vars>>

PowNext == ValidateFirst \/ ValidateSecond

SpecPoW == PowInit /\ [][PowNext]_vars

\* the exponent (high byte) and the mantissa bytes of a bits value
ExponentOf(bits) == bits[2] \div 256
MantissaOf(bits) == <<bits[2] % 256, bits[1] \div 256, bits[1] % 256>>

\* the byte at index k (0 the least significant) of the decoded target
\* M * 256^(E-3); mantissa bytes that fall below index 0 are dropped
TargetByte(bits, k) ==
    LET j == ExponentOf(bits) - k
    IN  IF j \in 1..3 THEN MantissaOf(bits)[j] ELSE 0

TargetWidth == (CHOOSE e \in Exponents : \A x \in Exponents : x <= e) + 1

\* target(b2) <= target(b1), as integers
TargetLeq(b2, b1) ==
    ~ \E k \in 0..(TargetWidth - 1) :
          /\ TargetByte(b2, k) > TargetByte(b1, k)
          /\ \A j \in (k + 1)..(TargetWidth - 1) : TargetByte(b2, j) = TargetByte(b1, j)

\* C12: for every hash and every two bits values b1, b2 with
\* target(b2) <= target(b1): if validate rejects the hash under b1, it does
\* not accept it under b2.
C12_PoWMonotone ==
    (vpc = "second" /\ TargetLeq(bits2, bits1) /\ is_valid1 = "reject")
        => is_valid2 # "accept"

\* a hash rejected under b1 by the mantissa comparison, validated again
\* under a strictly smaller target of another exponent
C12_Witness ==
    /\ vpc = "second"
    /\ TargetLeq(bits2, bits1) /\ ~TargetLeq(bits1, bits2)
    /\ ExponentOf(bits1) \in 3..HashSize
    /\ ExponentOf(bits2) \in 3..HashSize /\ ExponentOf(bits2) # ExponentOf(bits1)
    /\ \A i \in (ExponentOf(bits1) + 1)..HashSize : vhash[i] = 0
    /\ is_valid1 = "reject"
    /\ is_valid2 = "reject"

\* the hash bytes at indices E-1, E-2, E-3 (counted from 0, the least
\* significant byte first), most significant first
Significants(hh, bits) ==
    LET E == ExponentOf(bits) IN <<hh[E], hh[E - 1], hh[E - 2]>>

\* a < m, both of three bytes, compared most significant byte first
LessMsbFirst(a, m) ==
    \E k \in 1..3 : a[k] < m[k] /\ \A j \in 1..(k - 1) : a[j] = m[j]

\* C17: validate returns true exactly when, with E the high byte of bits and
\* the three low bytes the mantissa, every hash byte at index >= E is zero
\* and the hash bytes at indices E-1, E-2, E-3 (which exist for E in 3..32)
\* are, most significant first, strictly less than the mantissa; equality
\* on all three rejects.
C17_ValidateTiers ==
    vpc \in {"first", "second"} =>
        (is_valid1 = "accept" <=>
            /\ ExponentOf(bits1) \in 3..HashSize
            /\ \A i \in (ExponentOf(bits1) + 1)..HashSize : vhash[i] = 0
            /\ LessMsbFirst(Significants(vhash, bits1), MantissaOf(bits1)))

\* the three bytes equal to the mantissa under zero high bytes: rejected
C17_Witness ==
    /\ vpc = "first"
    /\ ExponentOf(bits1) \in 3..HashSize
    /\ \A i \in (ExponentOf(bits1) + 1)..HashSize : vhash[i] = 0
    /\ Significants(vhash, bits1) = MantissaOf(bits1)
    /\ is_valid1 = "reject"

\* accepted on the third byte after two equal ones
C17_WitnessAccept ==
    /\ vpc = "first"
    /\ is_valid1 = "accept"
    /\ Significants(vhash, bits1)[1] = MantissaOf(bits1)[1]
    /\ Significants(vhash, bits1)[2] = MantissaOf(bits1)[2]

(***************************************************************************)
(* BlockHeader::parse without validation, then BlockHeader::serialize      *)
(***************************************************************************)
\* 80-byte buffers: the serialized headers of the pool, and buffers whose
\* byte i is a * i + b, which reach every byte value and set the sign bit of
\* the version
HeaderBuffers ==
    {BlockHeaderSerialize(h) : h \in HeaderPool}
      \cup {[i \in 1..HeaderSize |-> (a * i + b) % 256] :
                a \in {0, 1, 3, 85}, b \in {0, 128, 255}}

\* the buffers given to BlockHeader::parse: of 80 bytes, and every shorter
\* prefix of them
ParseBuffers == {SubSeq(b, 1, n) : b \in HeaderBuffers, n \in 0..HeaderSize}

HeaderInit ==
    /\ LoopInit
    /\ PowIdle
    /\ WalletIdle
    /\ GuiIdle
    /\ cbuf \in ParseBuffers
    /\ cres = Err("none")
    /\ cout = <<>>
    /\ cpc = "input"

\* let block_header = BlockHeader::parse(buffer, false)
DoBlockHeaderParse ==
    /\ cpc = "input"
    /\ cres' = BlockHeaderParse(cbuf, FALSE)
    /\ cpc' = "parsed"
    /\ UNCHANGED <<cbuf, cout, non_codec_vars>>

\* block_header.unwrap().serialize()
DoBlockHeaderSerialize ==
    /\ cpc = "parsed"
    /\ IsOk(cres)
    /\ cout' = BlockHeaderSerialize(cres.val)
    /\ cpc' = "serialized"
    /\ UNCHANGED <<cbuf, cres, non_codec_vars>>

HeaderNext == DoBlockHeaderParse \/ DoBlockHeaderSerialize

SpecHeader == HeaderInit /\ [][HeaderNext]_vars

\* C13: BlockHeader::parse(buf, false) succeeds on every 80-byte buf and
\* serialize() of the parsed header is buf; on every buffer shorter than 80
\* bytes parse fails with SerializedBufferIsInvalid.
C13_BlockHeaderRoundTrip ==
    /\ (cpc \in {"parsed", "serialized"} /\ Len(cbuf) = HeaderSize) => IsOk(cres)
    /\ (cpc = "serialized" /\ Len(cbuf) = HeaderSize) => cout = cbuf
    /\ (cpc = "parsed" /\ Len(cbuf) < HeaderSize)
           => cres = Err("SerializedBufferIsInvalid")

\* a buffer with a negative version and distinct bits and nonce, parsed and
\* serialized back
C13_Witness ==
    /\ cpc = "serialized"
    /\ Len(cbuf) = HeaderSize
    /\ cres.val.version[2] < 0
    /\ cres.val.bits # cres.val.nonce
    /\ cout = cbuf

\* a buffer of 79 bytes, refused
C13_WitnessShort ==
    /\ cpc = "parsed"
    /\ Len(cbuf) = HeaderSize - 1
    /\ cres = Err("SerializedBufferIsInvalid")

(***************************************************************************)
(* GUIBalance (gui/balance.rs): handle_events on the presentation thread.  *)
(* gpc is the statement the handler is at; the NodeState mutex is shared   *)
(* with the other threads, one of which may panic while holding it.        *)
(***************************************************************************)
\* GUIActions: WalletChanged, and the variants of the `_` arm
GUIMessages == {"WalletChanged", "other"}

\* the value of a TxOutput of the pending map
TxOutput(v) == [value |-> v]

\* what NodeState::get_balance returns (satoshis)
BalanceResults == {Ok(0), Ok(150000000), Err("get_balance")}

\* what NodeState::get_pending_tx_from_wallet returns
PendingResults ==
    {Ok(<<>>), Ok(<<TxOutput(5000)>>), Ok(<<TxOutput(5000), TxOutput(1200)>>),
     Err("get_pending_tx_from_wallet")}

\* Log::Error(error)
LogError(error) == [level |-> "Error", error |-> error]

\* format!("Balance:    {} BTC", balance as f64 / 100000000.0): the quotient
\* is held by its count of 1e-8 BTC
BalanceText(balance) == [text |-> "Balance:    {} BTC", e8 |-> balance]

GuiInit ==
    /\ LoopInit
    /\ CodecIdle
    /\ PowIdle
    /\ WalletIdle
    /\ gpc = "idle"
    /\ message \in GUIMessages
    /\ builder \in [label : BOOLEAN, list : BOOLEAN]
    /\ node_state \in [balance : BalanceResults, pending : PendingResults]
    /\ poisoned = FALSE
    /\ lock_held = FALSE
    /\ result = "none"
    /\ label_balance = [text |-> "", e8 |-> 0]
    /\ pending_rows = <<>>
    /\ gui_logs = <<>>
    /\ stdout = <<>>

\* `?` on an Err inside handle_wallet_changed: the error reaches line 27
Raise(error) ==
    /\ gpc' = "report"
    /\ result' = error

\* unwrap on an Err: the thread unwinds; a guard it holds is dropped and
\* poisons the mutex
PanicHere ==
    /\ gpc' = "panicked"
    /\ poisoned' = (poisoned \/ lock_held)
    /\ lock_held' = FALSE

\* lines 22-25: the match on the message
HandleEvents ==
    /\ gpc = "idle"
    /\ gpc' = IF message = "WalletChanged" THEN "get_label" ELSE "returned"
    /\ UNCHANGED <<message, builder, node_state, poisoned, lock_held, result,
                   label_balance, pending_rows, gui_logs, stdout, non_gui_vars>>

\* line 38: get_gui_element(&self.builder, "label-balance")?
GetLabel ==
    /\ gpc = "get_label"
    /\ IF builder.label
       THEN gpc' = "lock_balance" /\ UNCHANGED result
       ELSE Raise("get_gui_element")
    /\ UNCHANGED <<message, builder, node_state, poisoned, lock_held,
                   label_balance, pending_rows, gui_logs, stdout, non_gui_vars>>

\* line 39: self.node_state_ref.lock()?
LockForBalance ==
    /\ gpc = "lock_balance"
    /\ IF poisoned
       THEN Raise("LockPoisoned") /\ UNCHANGED lock_held
       ELSE gpc' = "get_balance" /\ lock_held' = TRUE /\ UNCHANGED result
    /\ UNCHANGED <<message, builder, node_state, poisoned, label_balance,
                   pending_rows, gui_logs, stdout, non_gui_vars>>

\* lines 41-49: match node_state.get_balance()
GetBalance ==
    /\ gpc = "get_balance"
    /\ IF IsOk(node_state.balance)
       THEN /\ label_balance' = BalanceText(node_state.balance.val)
            /\ UNCHANGED gui_logs
       ELSE /\ gui_logs' = Append(gui_logs, LogError(node_state.balance.err))
            /\ UNCHANGED label_balance
    /\ gpc' = "drop_balance"
    /\ UNCHANGED <<message, builder, node_state, poisoned, lock_held, result,
                   pending_rows, stdout, non_gui_vars>>

\* lines 50-51: drop(node_state); Ok(()), and on to update_pending_txs
DropBalanceLock ==
    /\ gpc = "drop_balance"
    /\ lock_held' = FALSE
    /\ gpc' = "get_list"
    /\ UNCHANGED <<message, builder, node_state, poisoned, result, label_balance,
                   pending_rows, gui_logs, stdout, non_gui_vars>>

\* lines 55-56: get_gui_element(&self.builder, "pending-transactions-list")?
GetList ==
    /\ gpc = "get_list"
    /\ IF builder.list
       THEN gpc' = "lock_pending" /\ UNCHANGED result
       ELSE Raise("get_gui_element")
    /\ UNCHANGED <<message, builder, node_state, poisoned, lock_held,
                   label_balance, pending_rows, gui_logs, stdout, non_gui_vars>>

\* line 58: node_state_ref_clone.lock().unwrap()
LockForPending ==
    /\ gpc = "lock_pending"
    /\ IF poisoned
       THEN PanicHere
       ELSE gpc' = "get_pending" /\ lock_held' = TRUE /\ UNCHANGED poisoned
    /\ UNCHANGED <<message, builder, node_state, result, label_balance,
                   pending_rows, gui_logs, stdout, non_gui_vars>>

\* lines 59-66: get_pending_tx_from_wallet().unwrap(), the println! lines
\* and the rows added to the list box
GetPendingTx ==
    /\ gpc = "get_pending"
    /\ IF IsOk(node_state.pending)
       THEN LET pending_transactions == node_state.pending.val
            IN  /\ stdout' = stdout
                       \o <<[line |-> "POR MOSTRAR {} transacciones",
                             len |-> Len(pending_transactions)]>>
                       \o [i \in 1..Len(pending_transactions) |->
                              [line |-> "tx: {:?}", tx |-> pending_transactions[i]]]
                /\ pending_rows' = pending_rows
                       \o [i \in 1..Len(pending_transactions) |->
                              pending_transactions[i].value]
                /\ gpc' = "drop_pending"
                /\ UNCHANGED <<poisoned, lock_held>>
       ELSE PanicHere /\ UNCHANGED <<stdout, pending_rows>>
    /\ UNCHANGED <<message, builder, node_state, result, label_balance,
                   gui_logs, non_gui_vars>>

\* lines 67-69: drop(node_state); Ok(())
DropPendingLock ==
    /\ gpc = "drop_pending"
    /\ lock_held' = FALSE
    /\ gpc' = "returned"
    /\ UNCHANGED <<message, builder, node_state, poisoned, result, label_balance,
                   pending_rows, gui_logs, stdout, non_gui_vars>>

\* lines 27-29: if let Err(error) = result { send_log(.., Log::Error(error)) }
ReportError ==
    /\ gpc = "report"
    /\ gui_logs' = Append(gui_logs, LogError(result))
    /\ gpc' = "returned"
    /\ UNCHANGED <<message, builder, node_state, poisoned, lock_held, result,
                   label_balance, pending_rows, stdout, non_gui_vars>>

\* another thread panics while it holds the NodeState mutex
PoisonLock ==
    /\ gpc \notin {"returned", "panicked"}
    /\ ~lock_held
    /\ ~poisoned
    /\ poisoned' = TRUE
    /\ UNCHANGED <<gpc, message, builder, node_state, lock_held, result,
                   label_balance, pending_rows, gui_logs, stdout, non_gui_vars>>

GuiNext ==
    \/ HandleEvents
    \/ GetLabel
    \/ LockForBalance
    \/ GetBalance
    \/ DropBalanceLock
    \/ GetList
    \/ LockForPending
    \/ GetPendingTx
    \/ DropPendingLock
    \/ ReportError
    \/ PoisonLock

SpecGui == GuiInit /\ [][GuiNext]_vars

Logged(error) == \E i \in 1..Len(gui_logs) : gui_logs[i] = LogError(error)

\* C14 (as claimed): handling WalletChanged never panics, and when it has
\* returned after the lock, get_balance() or get_pending_tx_from_wallet()
\* failed, the error is in the logger channel.
C14_ReadErrorsLoggedNotFatal ==
    /\ gpc # "panicked"
    /\ (gpc = "returned" /\ result = "LockPoisoned") => Logged("LockPoisoned")
    /\ (gpc = "returned" /\ message = "WalletChanged" /\ builder.label
           /\ result # "LockPoisoned" /\ ~IsOk(node_state.balance))
         => Logged(node_state.balance.err)
    /\ (gpc = "returned" /\ message = "WalletChanged" /\ builder.label
           /\ builder.list /\ result = "none" /\ ~IsOk(node_state.pending))
         => Logged(node_state.pending.err)

\* C15 (as claimed): while GUIBalance handles WalletChanged, no step that
\* sends on the logger channel or writes output is taken with the NodeState
\* mutex held.
C15_LockNotHeldAcrossSendOrOutput ==
    [][(gui_logs' # gui_logs \/ stdout' # stdout) => ~lock_held]_vars

(***************************************************************************)
(* Wallet file (wallet.rs).  A String is held as its UTF-8 bytes.          *)
(***************************************************************************)
Wallet(name, pubkey, privkey) == [name |-> name, pubkey |-> pubkey, privkey |-> privkey]

\* s.len() as u8
LenAsU8(s) == Len(s) % (U8Max + 1)

\* Wallet::serialize
WalletSerialize(w) ==
    <<LenAsU8(w.name)>> \o w.name \o <<LenAsU8(w.pubkey)>> \o w.pubkey
      \o <<LenAsU8(w.privkey)>> \o w.privkey

\* BufferParser::extract_u8
extract_u8(buf) ==
    IF Len(buf) < 1 THEN Err("SerializedBufferIsInvalid")
    ELSE Ok([value |-> buf[1], rest |-> Tail(buf)])

\* well-formed UTF-8 over one-byte characters and two-byte characters
\* (lead 0xC2..0xDF, continuation 0x80..0xBF); longer forms are not among
\* the bytes of the modelled buffers
Utf8Valid(b) ==
    \A i \in 1..Len(b) :
        \/ b[i] < 128
        \/ b[i] \in 194..223 /\ i < Len(b) /\ b[i + 1] \in 128..191
        \/ b[i] \in 128..191 /\ i > 1 /\ b[i - 1] \in 194..223

\* BufferParser::extract_string(n)
extract_string(buf, n) ==
    IF Len(buf) < n \/ ~Utf8Valid(SubSeq(buf, 1, n))
    THEN Err("SerializedBufferIsInvalid")
    ELSE Ok([value |-> SubSeq(buf, 1, n), rest |-> SubSeq(buf, n + 1, Len(buf))])

\* parser.extract_u8()? as usize, then parser.extract_string(len)?
extract_field(buf) ==
    LET len == extract_u8(buf)
    IN  IF IsOk(len) THEN extract_string(len.val.rest, len.val.value) ELSE len

MoreRecordsAfterOneByte(buf) == Len(buf) > 1

\* while parser.len() > 0
MoreRecords(buf) == Len(buf) > 0

\* the loop of Wallet::parse_wallets
RECURSIVE ParseWalletRecords(_, _)
ParseWalletRecords(buf, ws) ==
    IF MoreRecords(buf)
    THEN LET name == extract_field(buf)
         IN  IF ~IsOk(name) THEN name
             ELSE LET pubkey == extract_field(name.val.rest)
                  IN  IF ~IsOk(pubkey) THEN pubkey
                      ELSE LET privkey == extract_field(pubkey.val.rest)
                           IN  IF ~IsOk(privkey) THEN privkey
                               ELSE ParseWalletRecords(
                                        privkey.val.rest,
                                        Append(ws, Wallet(name.val.value,
                                                          pubkey.val.value,
                                                          privkey.val.value)))
    ELSE Ok(ws)

\* Wallet::parse_wallets
parse_wallets(buffer) == ParseWalletRecords(buffer, <<>>)

\* a string of n one-byte characters
Str(n) == [i \in 1..n |-> 97 + (i % 26)]

\* wallets with a name that is empty, "b", "é", or of 255 or 256 bytes
WalletPool ==
    {Wallet(n, pk, sk) :
        n \in {<<>>, Str(1), <<195, 169>>, Str(U8Max), Str(U8Max + 1)},
        pk \in {Str(1), Str(2)},
        sk \in {<<>>, <<115>>}}

WalletLists == UNION {[1..n -> WalletPool] : n \in 0..MaxWallets}

\* the wallet file of a list of wallets: the records one after another
WalletFile(ws) == Concat([i \in 1..Len(ws) |-> WalletSerialize(ws[i])])

\* buffers not written by serialize: every prefix of the file of a short
\* wallet followed by a second one, and buffers with a byte that is no
\* UTF-8, a length beyond the end, or an end inside a record
ShortWallets == {w \in WalletPool : Len(w.name) <= 2}

BufferPrefixes(b) == {SubSeq(b, 1, n) : n \in 0..Len(b)}

RawBuffers ==
    UNION {BufferPrefixes(WalletFile(<<w, Wallet(Str(1), Str(2), <<>>)>>)) :
               w \in ShortWallets}
      \cup {<<1, 255, 0, 0>>, <<0, 0, 1, 128>>, <<5, 97, 98>>, <<0, 0>>, <<200>>}

WalletInit ==
    /\ LoopInit
    /\ CodecIdle
    /\ PowIdle
    /\ GuiIdle
    /\ wres = Err("none")
    /\ \/ wallets \in WalletLists /\ wbuf = <<>> /\ wpc = "wallets"
       \/ wallets = <<>> /\ wbuf \in RawBuffers /\ wpc = "buffer"

\* the file written from the wallets: serialize() of each, one after another
DoWalletSerialize ==
    /\ wpc = "wallets"
    /\ wbuf' = WalletFile(wallets)
    /\ wpc' = "serialized"
    /\ UNCHANGED <<wallets, wres, non_wallet_vars>>

\* Wallet::parse_wallets(buffer)
DoParseWallets ==
    /\ wpc \in {"buffer", "serialized"}
    /\ wres' = parse_wallets(wbuf)
    /\ wpc' = IF wpc = "buffer" THEN "parsed" ELSE "reparsed"
    /\ UNCHANGED <<wallets, wbuf, non_wallet_vars>>

WalletNext == DoWalletSerialize \/ DoParseWallets

SpecWallet == WalletInit /\ [][WalletNext]_vars

\* a field with its true length in front
Framed(f) == <<Len(f)>> \o f

\* whole records: every field complete behind a length byte that is its length
WholeRecords(ws) ==
    Concat([i \in 1..Len(ws) |->
               Framed(ws[i].name) \o Framed(ws[i].pubkey) \o Framed(ws[i].privkey)])

\* C16: parse_wallets returns the empty list for the empty buffer; it fails
\* (SerializedBufferIsInvalid, no list) whenever a length prefix exceeds the
\* bytes that remain or the buffer ends inside a record: a buffer it accepts
\* is made of whole records, each field of at most 255 bytes behind its
\* length.
C16_ParseWalletsFailsOnTruncation ==
    wpc \in {"parsed", "reparsed"} =>
        /\ wbuf = <<>> => wres = Ok(<<>>)
        /\ (Len(wbuf) > 0 /\ wbuf[1] > Len(wbuf) - 1) => ~IsOk(wres)
        /\ (Len(wbuf) \in 1..2) => ~IsOk(wres)
        /\ IsOk(wres) =>
              /\ wbuf = WholeRecords(wres.val)
              /\ \A i \in 1..Len(wres.val) :
                     /\ Len(wres.val[i].name) <= U8Max
                     /\ Len(wres.val[i].pubkey) <= U8Max
                     /\ Len(wres.val[i].privkey) <= U8Max
        /\ ~IsOk(wres) => wres = Err("SerializedBufferIsInvalid")

\* a buffer that ends inside its second record, after a complete first one
C16_Witness ==
    /\ wpc = "parsed"
    /\ \E n \in 3..(Len(wbuf) - 1) :
           /\ IsOk(parse_wallets(SubSeq(wbuf, 1, n)))
           /\ parse_wallets(SubSeq(wbuf, 1, n + 1)) = Err("SerializedBufferIsInvalid")
    /\ wres = Err("SerializedBufferIsInvalid")

\* C20 (as claimed): for every list of wallets w1..wn, of every field
\* length, parse_wallets of serialize(w1) ++ ... ++ serialize(wn) succeeds
\* and returns exactly w1..wn in order.
C20_WalletRoundTrip ==
    wpc = "reparsed" => wres = Ok(wallets)

=============================================================================
